---- MODULE Spec2Model ----
(***************************************************************************)
(* Virtual chat list of ai-chat-pc: the height cache (useMessageHeight),   *)
(* the window computation, the scroll handler with its requestAnimation-   *)
(* Frame throttle and its 500 ms settle timer, and the auto-scroll to the  *)
(* bottom (VirtualChatList, MessageItem, rafThrottle).                     *)
(*                                                                         *)
(* React is modelled by its observable schedule: an event handler runs,    *)
(* the state updates it made are rendered and committed, and the effects   *)
(* whose dependencies changed run, all within the action of the handler.   *)
(* A write to a ref (the height cache) renders nothing.  The scroll        *)
(* container is modelled by its scrollTop, by a scrollHeight equal to the  *)
(* placeholder's height (never below the client height) and by the scroll  *)
(* event the browser dispatches after scrollTop was changed by a script or *)
(* by layout.                                                              *)
(***************************************************************************)
EXTENDS Integers, Sequences, FiniteSets, TLC

\* ------------------------------------------------------------------ bounds
MaxMessages == 3          \* messages appended in the list specification
MaxItems == 10            \* item count drawn in the window specification
MaxAutoScrolls == 2       \* auto-scroll frame callbacks pending at once

\* -------------------------------------------------------- program constants
DefaultHeight == 120      \* useMessageHeight(120)
BUFFER_SIZE == 3
BottomEpsilon == 10       \* isAtBottom: ... < 10
ReadmeHeight == 600       \* height={600} of the README's usage

\* ------------------------------------------------------------ input values
ViewportHeights == {230}
\* contentRect.height values a ResizeObserver entry can carry
EntryHeights == {0, 40}

Max(a, b) == IF a >= b THEN a ELSE b
Min(a, b) == IF a <= b THEN a ELSE b

VARIABLES
  messagesLength,    \* messages.length of the messages prop
  height,            \* the height prop (the viewport)
  heightCache,       \* heightCache.current: a Map index -> size
  scrollTop,         \* useState scrollTop
  isUserScrolling,   \* useState isUserScrolling
  userScrollTimeout, \* the timer of userScrollTimeoutRef is pending
  rafId,             \* rafThrottle: rafId !== null
  scrollFrames,      \* pending frame callbacks of rafThrottle: their arguments
  autoScrollFrames,  \* number of pending auto-scroll frame callbacks
  totalHeight,       \* the memoised totalHeight of the last render
  startIndex,        \* the rendered window of the last render
  endIndex,
  offsetY,
  onHeightChange,    \* per mounted MessageItem: the handleHeightChange closure
                     \* its ResizeObserver calls
  domScrollTop,      \* containerRef.current.scrollTop
  scrollEvent,       \* scroll event not yet dispatched: "none", or its cause
  lastSample,        \* target.scrollTop of the last handled scroll event
  unpinnedSinceAppend, \* isUserScrolling held ever since the last append
  mounted,           \* the VirtualChatList instance is mounted
  now,               \* Date.now(), and the clock of the timers
  wait,              \* the wait argument of debounce and throttle
  debTimers,         \* debounce: the timers setTimeout holds
  debTimeout,        \* debounce: its timeout variable
  debLastCall,       \* debounce: time and arguments of the last call
  debRuns,           \* debounce: runs of func since the last call
  thrTimers,         \* throttle: the timers setTimeout holds
  thrTimeout,        \* throttle: its timeout variable
  thrPrevious,       \* throttle: its previous variable
  thrLastRun,        \* throttle: time of the last run of func, -1 if none
  thrRuns,           \* throttle: number of runs of func
  thrWaiting,        \* throttle: a call since the last run did not run func
  selectedId,        \* useConversationStore: the selected conversation
  msgHeap,           \* the message objects ever created, by reference
  arrHeap,           \* the message arrays ever created, by reference
  mapHeap,           \* the Maps ever created, by reference
  storeMessages,     \* useChatStore: state.messages, a reference to a Map
  streamConversation,\* the conversation selected when the reply began
  settleTimers,      \* the settle timers setTimeout holds, with due times
  settleRef,         \* userScrollTimeoutRef.current
  lastScrollTime     \* time of the last scroll sample, -1 if none

vars == <<messagesLength, height, heightCache, scrollTop, isUserScrolling,
          userScrollTimeout, rafId, scrollFrames, autoScrollFrames,
          totalHeight, startIndex, endIndex, offsetY, onHeightChange,
          domScrollTop, scrollEvent, lastSample, unpinnedSinceAppend,
          mounted, now, wait, debTimers, debTimeout, debLastCall, debRuns,
          thrTimers, thrTimeout, thrPrevious, thrLastRun, thrRuns,
          thrWaiting, selectedId, msgHeap, arrHeap, mapHeap, storeMessages,
          streamConversation, settleTimers, settleRef, lastScrollTime>>

\* the variables of the list
listVars == <<messagesLength, height, heightCache, scrollTop, isUserScrolling,
              userScrollTimeout, rafId, scrollFrames, autoScrollFrames,
              totalHeight, startIndex, endIndex, offsetY, onHeightChange,
              domScrollTop, scrollEvent, lastSample, unpinnedSinceAppend>>

\* the variables of debounce and throttle
utilVars == <<now, wait, debTimers, debTimeout, debLastCall, debRuns,
              thrTimers, thrTimeout, thrPrevious, thrLastRun, thrRuns,
              thrWaiting>>

\* the variables of the chat store and of the conversation store
storeVars == <<selectedId, msgHeap, arrHeap, mapHeap, storeMessages,
               streamConversation>>

\* the settle timers of handleScroll, where time is modelled
settleVars == <<settleTimers, settleRef, lastScrollTime>>

\* what the actions of the mounted list leave alone
otherVars == <<mounted, utilVars, storeVars, settleVars>>

Conversations == {"c1", "c2"}

\* messages: new Map(), and a conversation selected. A reference is an index
\* into the heap of its kind; a Map holds for each key the reference of its
\* array, 0 for a key it does not have. The chunks of a behaviour are those
\* of one streamed reply, which begins with the first of them.
StoreInit(selected) ==
  /\ selectedId \in selected
  /\ msgHeap = <<>>
  /\ arrHeap = <<>>
  /\ mapHeap = <<[c \in Conversations |-> 0]>>
  /\ storeMessages = 1
  /\ streamConversation = "none"

\* timeout = null, and no call yet
NoTimer == [due |-> -1, args |-> "none"]

WaitTimes == {2, 3}
MaxTime == 9              \* the clock runs for MaxTime ticks
\* Date.now() is far beyond any wait when the first call is made
StartTime == 4

UtilInit(waits) ==
  /\ wait \in waits
  /\ now = StartTime
  /\ debTimers = {}
  /\ debTimeout = NoTimer
  /\ debLastCall = NoTimer
  /\ debRuns = 0
  /\ thrTimers = {}
  /\ thrTimeout = NoTimer
  /\ thrPrevious = 0
  /\ thrLastRun = -1
  /\ thrRuns = 0
  /\ thrWaiting = FALSE

\* userScrollTimeoutRef = useRef(null), and no scroll sample yet
SettleInit ==
  /\ settleTimers = {}
  /\ settleRef = NoTimer
  /\ lastScrollTime = -1

\* the first values of otherVars: the list mounted, and neither debounce nor
\* throttle instantiated
OtherInit ==
  mounted = TRUE /\ UtilInit({0}) /\ StoreInit({"c1"}) /\ SettleInit

\* ------------------------------------------------------------ height cache
EmptyCache == [i \in {} |-> 0]

\* heightCache.current.get(index) || defaultHeight
getItemSize(cache, index) ==
  IF index \in DOMAIN cache /\ cache[index] # 0
  THEN cache[index] ELSE DefaultHeight

\* setItemSize storing into a new Map that holds this index only
setItemSizeFresh(cache, index, size) == [j \in {index} |-> size]

\* if (currentHeight !== size) heightCache.current.set(index, size)
setItemSize(cache, index, size) ==
  IF index \in DOMAIN cache /\ cache[index] = size
  THEN cache
  ELSE [j \in DOMAIN cache \cup {index} |->
          IF j = index THEN size ELSE cache[j]]

\* heightCache.current.clear()
resetHeights(cache) == EmptyCache

\* ------------------------------------------------------ window computation
RECURSIVE SumSizes(_, _, _)
\* sum of getItemSize(i) for i in [from, to)
SumSizes(cache, from, to) ==
  IF from >= to THEN 0
  ELSE getItemSize(cache, to - 1) + SumSizes(cache, from, to - 1)

\* the body of the totalHeight memo
ComputeTotalHeight(cache, n) == SumSizes(cache, 0, n)

RECURSIVE StartScan(_, _, _, _, _)
StartScan(cache, n, s, i, sum) ==
  IF i >= n THEN Max(0, n - 1 - BUFFER_SIZE)
  ELSE IF sum + getItemSize(cache, i) > s THEN Max(0, i - BUFFER_SIZE)
  ELSE StartScan(cache, n, s, i + 1, sum + getItemSize(cache, i))

RECURSIVE StartScanReadme(_, _, _, _, _)
StartScanReadme(cache, n, s, i, sum) ==
  IF i >= n THEN n - 1
  ELSE IF sum + getItemSize(cache, i) > s THEN Max(0, i - BUFFER_SIZE)
  ELSE StartScanReadme(cache, n, s, i + 1, sum + getItemSize(cache, i))

\* getStartIndex falling through to messages.length - 1
getStartIndexReadme(cache, n, s) == StartScanReadme(cache, n, s, 0, 0)

\* getStartIndex that never leaves the top of the list
getStartIndexFromTop(cache, n, s) == 0

RECURSIVE StartScanAhead(_, _, _, _, _)
StartScanAhead(cache, n, s, i, sum) ==
  IF i >= n THEN Max(0, n - 1 - BUFFER_SIZE)
  ELSE IF sum + getItemSize(cache, i) > s THEN Min(n - 1, i + BUFFER_SIZE)
  ELSE StartScanAhead(cache, n, s, i + 1, sum + getItemSize(cache, i))

\* getStartIndex with the buffer on the wrong side of the first visible item
getStartIndexAhead(cache, n, s) == StartScanAhead(cache, n, s, 0, 0)

getStartIndex(cache, n, s) == StartScan(cache, n, s, 0, 0)

RECURSIVE EndScan(_, _, _, _, _)
EndScan(cache, n, limit, i, sum) ==
  IF i >= n THEN n - 1
  ELSE IF sum + getItemSize(cache, i) > limit THEN Min(n - 1, i + BUFFER_SIZE)
  ELSE EndScan(cache, n, limit, i + 1, sum + getItemSize(cache, i))

RECURSIVE EndScanUnclamped(_, _, _, _, _)
EndScanUnclamped(cache, n, limit, i, sum) ==
  IF i >= n THEN n - 1
  ELSE IF sum + getItemSize(cache, i) > limit THEN i + BUFFER_SIZE
  ELSE EndScanUnclamped(cache, n, limit, i + 1, sum + getItemSize(cache, i))

\* getEndIndex without the Math.min(messages.length - 1, ...)
getEndIndexUnclamped(cache, n, s, v) == EndScanUnclamped(cache, n, s + v, 0, 0)

\* getEndIndex closing the window one item early
getEndIndexShort(cache, n, s, v) == EndScan(cache, n, s + v - 1, 0, 0)

getEndIndex(cache, n, s, v) == EndScan(cache, n, s + v, 0, 0)

\* getOffsetY counting the first rendered item too
getOffsetYInclusive(cache, start) == SumSizes(cache, 0, start + 1)

getOffsetY(cache, start) == SumSizes(cache, 0, start)

\* ------------------------------------------------------- scroll container
\* scrollHeight: the placeholder of height totalHeight, at least clientHeight
ScrollHeight(total, v) == Max(total, v)
MaxScrollTop(total, v) == ScrollHeight(total, v) - v

\* the isAtBottom test with <= in place of <
isAtBottomInclusive(total, top, v) ==
  ScrollHeight(total, v) - top - v <= BottomEpsilon

\* target.scrollHeight - target.scrollTop - target.clientHeight < 10
isAtBottom(total, top, v) == ScrollHeight(total, v) - top - v < BottomEpsilon

\* ------------------------------------------------------------------ timers
\* the cleanup effect without its clearTimeout
clearTimeoutSkipped(pending) == pending

\* clearTimeout(userScrollTimeoutRef.current): no timer is pending afterwards
clearTimeout(pending) == FALSE

\* ---------------------------------------------------------- frame callbacks
\* The callbacks requestAnimationFrame holds are all run by the next frame.
\* Those of rafThrottle are kept with their arguments, in the order of their
\* requests; those of the auto-scroll all do the same and are counted.

\* rafThrottle without its rafId test
rafThrottleUnguarded(q, id, arg) == [q |-> Append(q, arg), id |-> TRUE]

\* rafThrottle: a call while rafId !== null returns at once
rafThrottle(q, id, arg) ==
  IF id THEN [q |-> q, id |-> id]
  ELSE [q |-> Append(q, arg), id |-> TRUE]

\* the auto-scroll effect without its messages.length > 0 test
AutoScrollEffectOnEmpty(pending, n, scrolling) ==
  IF ~scrolling THEN pending + 1 ELSE pending

\* the auto-scroll effect requesting its frame callback twice
AutoScrollEffectTwice(pending, n, scrolling) ==
  IF ~scrolling /\ n > 0 THEN pending + 2 ELSE pending

\* the auto-scroll effect without its isUserScrolling test
AutoScrollEffectAlways(pending, n, scrolling) ==
  IF n > 0 THEN pending + 1 ELSE pending

\* the auto-scroll effect: deps [messages.length, isUserScrolling]
AutoScrollEffect(pending, n, scrolling) ==
  IF ~scrolling /\ n > 0 THEN pending + 1 ELSE pending

\* --------------------------------------------------------------- rendering
\* the handleHeightChange of a render: useCallback over
\* [messages.length, isUserScrolling, setItemSize]
Handler(n, scrolling) == [length |-> n, isUserScrolling |-> scrolling]

\* MountedHandlers without the disconnect of the cleanup: the observer of an
\* item that left the rendered range keeps reporting
MountedHandlersKept(old, start, end, n, scrolling, changed) ==
  [i \in DOMAIN old \cup {j \in start..end : j >= 0 /\ j < n} |->
     IF i \in DOMAIN old /\ i \notin changed
     THEN old[i] ELSE Handler(n, scrolling)]

\* MessageItem is memoised on message and index: an item that stays mounted
\* with the same message keeps the handler of its last render
MountedHandlers(old, start, end, n, scrolling, changed) ==
  [i \in {j \in start..end : j >= 0 /\ j < n} |->
     IF i \in DOMAIN old /\ i \notin changed
     THEN old[i] ELSE Handler(n, scrolling)]

\* startIndex, endIndex, offsetY and the mounted items of a render
CommitWindow(cache, n, s, v, scrolling, changed) ==
  LET start == getStartIndex(cache, n, s)
      end == getEndIndex(cache, n, s, v)
  IN /\ startIndex' = start
     /\ endIndex' = end
     /\ offsetY' = getOffsetY(cache, start)
     /\ onHeightChange' =
          MountedHandlers(onHeightChange, start, end, n, scrolling, changed)

\* ------------------------------------------------------------------- Init
Init ==
  /\ messagesLength \in {0, 1}
  /\ height \in ViewportHeights
  /\ heightCache = EmptyCache
  /\ scrollTop = 0
  /\ isUserScrolling = FALSE
  /\ userScrollTimeout = FALSE
  /\ rafId = FALSE
  /\ scrollFrames = <<>>
  /\ autoScrollFrames = AutoScrollEffect(0, messagesLength, FALSE)
  /\ totalHeight = ComputeTotalHeight(heightCache, messagesLength)
  /\ startIndex = getStartIndex(heightCache, messagesLength, 0)
  /\ endIndex = getEndIndex(heightCache, messagesLength, 0, height)
  /\ offsetY = getOffsetY(heightCache, startIndex)
  /\ onHeightChange =
       MountedHandlers(EmptyCache, startIndex, endIndex, messagesLength,
                       FALSE, {})
  /\ domScrollTop = 0
  /\ scrollEvent = "none"
  /\ lastSample = 0
  /\ unpinnedSinceAppend = FALSE
  /\ OtherInit

\* ---------------------------------------------------------------- actions
\* the store appends a message: messages.length grows by one, the list
\* renders, the totalHeight memo is recomputed, the auto-scroll effect runs
AppendMessage ==
  /\ mounted
  /\ messagesLength < MaxMessages
  /\ LET n == messagesLength + 1
         total == ComputeTotalHeight(heightCache, n)
         top == Min(domScrollTop, MaxScrollTop(total, height))
         pending == AutoScrollEffect(autoScrollFrames, n, isUserScrolling)
     IN /\ pending <= MaxAutoScrolls
        /\ messagesLength' = n
        /\ totalHeight' = total
        /\ CommitWindow(heightCache, n, scrollTop, height, isUserScrolling, {})
        /\ autoScrollFrames' = pending
        /\ domScrollTop' = top
        /\ scrollEvent' = IF top # domScrollTop THEN "layout" ELSE scrollEvent
  /\ unpinnedSinceAppend' = isUserScrolling
  /\ UNCHANGED <<height, heightCache, scrollTop, isUserScrolling,
                 userScrollTimeout, rafId, scrollFrames, lastSample>>
  /\ UNCHANGED otherVars

\* the store replaces the last message by a new object (a streamed chunk):
\* the list renders with the same length
UpdateLastMessage ==
  /\ mounted
  /\ messagesLength > 0
  /\ CommitWindow(heightCache, messagesLength, scrollTop, height,
                  isUserScrolling, {messagesLength - 1})
  /\ UNCHANGED <<messagesLength, height, heightCache, scrollTop,
                 isUserScrolling, userScrollTimeout, rafId, scrollFrames,
                 autoScrollFrames, totalHeight, domScrollTop, scrollEvent,
                 lastSample, unpinnedSinceAppend>>
  /\ UNCHANGED otherVars

\* handleScroll with target.scrollTop = sample: what it does to the list
handleScrollState(sample) ==
  LET t == rafThrottle(scrollFrames, rafId, sample)
  IN /\ scrollFrames' = t.q
     /\ rafId' = t.id
     /\ isUserScrolling' = TRUE
     /\ userScrollTimeout' = TRUE
     /\ lastSample' = sample
     /\ IF isUserScrolling
        THEN UNCHANGED <<startIndex, endIndex, offsetY, onHeightChange>>
        ELSE CommitWindow(heightCache, messagesLength, scrollTop, height,
                          TRUE, {})
     /\ UNCHANGED <<messagesLength, height, heightCache, scrollTop,
                    autoScrollFrames, totalHeight, unpinnedSinceAppend>>

\* handleScroll, the time of its settle timer left out
handleScroll(sample) == handleScrollState(sample) /\ UNCHANGED otherVars

\* offsets the user scrolls to
UserOffsets(max) == {o \in {0, max - 10, max} : o >= 0 /\ o <= max}

\* the user scrolls the container; its scroll event is handled
UserScroll(o) ==
  /\ mounted
  /\ o # domScrollTop
  /\ domScrollTop' = o
  /\ scrollEvent' = "none"
  /\ handleScroll(o)

\* the scroll event of a scrollTop set by a script or by layout is handled
DispatchScrollEvent ==
  /\ mounted
  /\ scrollEvent # "none"
  /\ scrollEvent' = "none"
  /\ UNCHANGED domScrollTop
  /\ handleScroll(domScrollTop)

\* the callback of the settle timer: what it does to the list
SettleTimeoutState ==
  /\ userScrollTimeout
  /\ userScrollTimeout' = FALSE
  /\ LET scrolling ==
           IF isAtBottom(totalHeight, domScrollTop, height)
           THEN FALSE ELSE isUserScrolling
         pending == IF scrolling # isUserScrolling
                    THEN AutoScrollEffect(autoScrollFrames, messagesLength,
                                          scrolling)
                    ELSE autoScrollFrames
     IN /\ pending <= MaxAutoScrolls
        /\ isUserScrolling' = scrolling
        /\ autoScrollFrames' = pending
        /\ IF scrolling # isUserScrolling
           THEN CommitWindow(heightCache, messagesLength, scrollTop, height,
                             scrolling, {})
           ELSE UNCHANGED <<startIndex, endIndex, offsetY, onHeightChange>>
        /\ unpinnedSinceAppend' = (unpinnedSinceAppend /\ scrolling)
  /\ UNCHANGED <<messagesLength, height, heightCache, scrollTop, rafId,
                 scrollFrames, totalHeight, domScrollTop, scrollEvent,
                 lastSample>>

\* the callback of the settle timer (setTimeout ..., 500), run at any time
\* after the last scroll sample
SettleTimeout == SettleTimeoutState /\ UNCHANGED otherVars

\* handleHeightChange(index, size) of the render whose handler is h
handleHeightChange(h, index, size) ==
  LET pending == IF index = h.length - 1 /\ ~h.isUserScrolling
                 THEN autoScrollFrames + 1 ELSE autoScrollFrames
  IN /\ pending <= MaxAutoScrolls
     /\ heightCache' = setItemSize(heightCache, index, size)
     /\ autoScrollFrames' = pending
     /\ UNCHANGED <<messagesLength, height, scrollTop, isUserScrolling,
                    userScrollTimeout, rafId, scrollFrames, totalHeight,
                    startIndex, endIndex, offsetY, onHeightChange,
                    domScrollTop, scrollEvent, lastSample,
                    unpinnedSinceAppend>>
     /\ UNCHANGED otherVars

\* the ResizeObserver callback of the mounted item index, for one entry
ResizeObserverCallback(index, size) ==
  /\ index \in DOMAIN onHeightChange
  /\ IF size > 0
     THEN handleHeightChange(onHeightChange[index], index, size)
     ELSE UNCHANGED vars

\* the auto-scroll callback without its test of containerRef.current
containerRefAssumed(isMounted) == TRUE

\* if (containerRef.current): the ref is null once the list is unmounted
containerRef(isMounted) == isMounted

\* a container that sends a scroll event for every scrollTop it is given
scrollEventAlways(top, old, event) == "auto"

\* the container sends a scroll event when its scrollTop has changed
scrollEventOf(top, old, event) == IF top # old THEN "auto" ELSE event

\* a display frame: every pending requestAnimationFrame callback runs.
\* After the unmount setScrollTop is the state setter of an unmounted
\* component, which React ignores, and the auto-scroll callback finds
\* containerRef.current null.
Frame ==
  /\ scrollFrames # <<>> \/ autoScrollFrames > 0
  /\ scrollFrames' = <<>>
  /\ autoScrollFrames' = 0
  /\ LET s == IF scrollFrames # <<>> /\ mounted
              THEN scrollFrames[Len(scrollFrames)] ELSE scrollTop
         top == IF autoScrollFrames > 0 /\ containerRef(mounted)
                THEN MaxScrollTop(totalHeight, height) ELSE domScrollTop
     IN /\ scrollTop' = s
        /\ rafId' = IF scrollFrames # <<>> THEN FALSE ELSE rafId
        /\ domScrollTop' = top
        /\ scrollEvent' = scrollEventOf(top, domScrollTop, scrollEvent)
        /\ IF s # scrollTop
           THEN CommitWindow(heightCache, messagesLength, s, height,
                             isUserScrolling, {})
           ELSE UNCHANGED <<startIndex, endIndex, offsetY, onHeightChange>>
  /\ UNCHANGED <<messagesLength, height, heightCache, isUserScrolling,
                 userScrollTimeout, totalHeight, lastSample,
                 unpinnedSinceAppend>>
  /\ UNCHANGED otherVars

Next ==
  \/ AppendMessage
  \/ UpdateLastMessage
  \/ \E o \in UserOffsets(MaxScrollTop(totalHeight, height)) : UserScroll(o)
  \/ DispatchScrollEvent
  \/ SettleTimeout
  \/ \E i \in 0..(MaxMessages - 1), size \in EntryHeights :
       ResizeObserverCallback(i, size)
  \/ Frame

Spec == Init /\ [][Next]_vars

\* the list when the user never scrolls: every scroll event is that of a
\* scrollTop set by the auto-scroll or clamped by layout
NoUserNext ==
  \/ AppendMessage
  \/ UpdateLastMessage
  \/ DispatchScrollEvent
  \/ SettleTimeout
  \/ \E i \in 0..(MaxMessages - 1), size \in EntryHeights :
       ResizeObserverCallback(i, size)
  \/ Frame

SpecNoUser == Init /\ [][NoUserNext]_vars

\* the list with its scheduling: the browser dispatches a pending scroll
\* event, runs a pending timer and runs the pending frame callbacks
SpecLive ==
  /\ Spec
  /\ WF_vars(DispatchScrollEvent)
  /\ WF_vars(SettleTimeout)
  /\ WF_vars(Frame)

\* ------------------------------------------- the window specification
\* The window computation under longer lists: the list is mounted with up to
\* MaxItems messages, nobody scrolls by hand, and the inputs of the
\* computation (length, scrollTop state, cache) are driven directly.
WindowViewports == {ReadmeHeight}
WindowSizes == {50}
MaxMeasured == 2          \* indexes below it get measured

WInit ==
  /\ messagesLength \in 0..MaxItems
  /\ height \in WindowViewports
  /\ heightCache = EmptyCache
  /\ scrollTop = 0
  /\ isUserScrolling = FALSE
  /\ userScrollTimeout = FALSE
  /\ rafId = FALSE
  /\ scrollFrames = <<>>
  /\ autoScrollFrames = 0
  /\ totalHeight = ComputeTotalHeight(heightCache, messagesLength)
  /\ startIndex = getStartIndex(heightCache, messagesLength, 0)
  /\ endIndex = getEndIndex(heightCache, messagesLength, 0, height)
  /\ offsetY = getOffsetY(heightCache, startIndex)
  /\ onHeightChange =
       MountedHandlers(EmptyCache, startIndex, endIndex, messagesLength,
                       FALSE, {})
  /\ domScrollTop = 0
  /\ scrollEvent = "none"
  /\ lastSample = 0
  /\ unpinnedSinceAppend = FALSE
  /\ OtherInit

WindowOffsets(max) == {o \in {60 * k : k \in 0..(2 * MaxItems + 10)} : o <= max}

\* setScrollTop(o) and the render it causes
WSetScrollTop(o) ==
  /\ o # scrollTop
  /\ scrollTop' = o
  /\ domScrollTop' = o
  /\ lastSample' = o
  /\ CommitWindow(heightCache, messagesLength, o, height, isUserScrolling, {})
  /\ UNCHANGED <<messagesLength, height, heightCache, isUserScrolling,
                 userScrollTimeout, rafId, scrollFrames, autoScrollFrames,
                 totalHeight, scrollEvent, unpinnedSinceAppend>>
  /\ UNCHANGED otherVars

\* setItemSize(index, size) by the observer of a mounted item: no render
WSetItemSize(index, size) ==
  /\ index \in DOMAIN onHeightChange
  /\ heightCache' = setItemSize(heightCache, index, size)
  /\ UNCHANGED <<messagesLength, height, scrollTop, isUserScrolling,
                 userScrollTimeout, rafId, scrollFrames, autoScrollFrames,
                 totalHeight, startIndex, endIndex, offsetY, onHeightChange,
                 domScrollTop, scrollEvent, lastSample, unpinnedSinceAppend>>
  /\ UNCHANGED otherVars

\* a render with the same length
WRender ==
  /\ CommitWindow(heightCache, messagesLength, scrollTop, height,
                  isUserScrolling, {})
  /\ UNCHANGED <<messagesLength, height, heightCache, scrollTop,
                 isUserScrolling, userScrollTimeout, rafId, scrollFrames,
                 autoScrollFrames, totalHeight, domScrollTop, scrollEvent,
                 lastSample, unpinnedSinceAppend>>
  /\ UNCHANGED otherVars

\* a render with one more message: the totalHeight memo is recomputed
WAppend ==
  /\ messagesLength < MaxItems
  /\ messagesLength' = messagesLength + 1
  /\ totalHeight' = ComputeTotalHeight(heightCache, messagesLength + 1)
  /\ CommitWindow(heightCache, messagesLength + 1, scrollTop, height,
                  isUserScrolling, {})
  /\ UNCHANGED <<height, heightCache, scrollTop, isUserScrolling,
                 userScrollTimeout, rafId, scrollFrames, autoScrollFrames,
                 domScrollTop, scrollEvent, lastSample, unpinnedSinceAppend>>
  /\ UNCHANGED otherVars

WNext ==
  \/ \E o \in WindowOffsets(MaxScrollTop(totalHeight, height)) :
       WSetScrollTop(o)
  \/ \E i \in 0..(MaxMeasured - 1), size \in WindowSizes :
       WSetItemSize(i, size)
  \/ WRender
  \/ WAppend

SpecWindow == WInit /\ [][WNext]_vars

\* ------------------------------------------------------------------------
\* The index computation over a list of fixed length: every length up to
\* MaxItems, two viewports, offsets over the whole of [0, totalHeight].
\* A report changes the cache without a render, so an offset sampled
\* against the placeholder of the last render can lie anywhere in
\* [0, totalHeight] of the sizes the next render reads.
IndexViewports == {230, ReadmeHeight}

IInit ==
  /\ messagesLength \in 1..MaxItems
  /\ height \in IndexViewports
  /\ heightCache = EmptyCache
  /\ scrollTop = 0
  /\ isUserScrolling = FALSE
  /\ userScrollTimeout = FALSE
  /\ rafId = FALSE
  /\ scrollFrames = <<>>
  /\ autoScrollFrames = 0
  /\ totalHeight = ComputeTotalHeight(heightCache, messagesLength)
  /\ startIndex = getStartIndex(heightCache, messagesLength, 0)
  /\ endIndex = getEndIndex(heightCache, messagesLength, 0, height)
  /\ offsetY = getOffsetY(heightCache, startIndex)
  /\ onHeightChange =
       MountedHandlers(EmptyCache, startIndex, endIndex, messagesLength,
                       FALSE, {})
  /\ domScrollTop = 0
  /\ scrollEvent = "none"
  /\ lastSample = 0
  /\ unpinnedSinceAppend = FALSE
  /\ OtherInit

INext ==
  \/ \E o \in WindowOffsets(totalHeight) : WSetScrollTop(o)
  \/ \E i \in 0..(MaxMeasured - 1), size \in WindowSizes :
       WSetItemSize(i, size)
  \/ WRender

SpecIndex == IInit /\ [][INext]_vars

\* ------------------------------------------------------------------------
\* The useMessageHeight hook on its own: its setItemSize and resetHeights
\* called with any index and any number as size, as its signature allows.
CacheIndexes == 0..MaxMeasured
CacheHeights == {-5, 0, 40, 50}

CInit ==
  /\ messagesLength = 0
  /\ height = ReadmeHeight
  /\ heightCache = EmptyCache
  /\ scrollTop = 0
  /\ isUserScrolling = FALSE
  /\ userScrollTimeout = FALSE
  /\ rafId = FALSE
  /\ scrollFrames = <<>>
  /\ autoScrollFrames = 0
  /\ totalHeight = 0
  /\ startIndex = 0
  /\ endIndex = -1
  /\ offsetY = 0
  /\ onHeightChange = EmptyCache
  /\ domScrollTop = 0
  /\ scrollEvent = "none"
  /\ lastSample = 0
  /\ unpinnedSinceAppend = FALSE
  /\ OtherInit

\* setItemSize(index, size)
CSetItemSize(index, size) ==
  /\ heightCache' = setItemSize(heightCache, index, size)
  /\ UNCHANGED <<messagesLength, height, scrollTop, isUserScrolling,
                 userScrollTimeout, rafId, scrollFrames, autoScrollFrames,
                 totalHeight, startIndex, endIndex, offsetY, onHeightChange,
                 domScrollTop, scrollEvent, lastSample, unpinnedSinceAppend>>
  /\ UNCHANGED otherVars

\* resetHeights()
CResetHeights ==
  /\ heightCache' = resetHeights(heightCache)
  /\ UNCHANGED <<messagesLength, height, scrollTop, isUserScrolling,
                 userScrollTimeout, rafId, scrollFrames, autoScrollFrames,
                 totalHeight, startIndex, endIndex, offsetY, onHeightChange,
                 domScrollTop, scrollEvent, lastSample, unpinnedSinceAppend>>
  /\ UNCHANGED otherVars

CNext ==
  \/ \E i \in CacheIndexes, size \in CacheHeights : CSetItemSize(i, size)
  \/ CResetHeights

SpecCache == CInit /\ [][CNext]_vars

\* ------------------------------------------------------------------------
\* ChatBubble: the list shows the messages of the selected conversation.
\* Selecting another non-empty conversation renders the same VirtualChatList
\* with another messages array: its refs and state are kept, every mounted
\* MessageItem gets a new message and renders, the totalHeight memo and the
\* auto-scroll effect run only if the length differs.
SelectConversation(m) ==
  /\ messagesLength >= 1
  /\ LET total == IF m # messagesLength
                  THEN ComputeTotalHeight(heightCache, m) ELSE totalHeight
         top == Min(domScrollTop, MaxScrollTop(total, height))
         pending == IF m # messagesLength
                    THEN AutoScrollEffect(autoScrollFrames, m, isUserScrolling)
                    ELSE autoScrollFrames
     IN /\ pending <= MaxAutoScrolls
        /\ messagesLength' = m
        /\ totalHeight' = total
        /\ CommitWindow(heightCache, m, scrollTop, height, isUserScrolling,
                        0..(MaxMessages - 1))
        /\ autoScrollFrames' = pending
        /\ domScrollTop' = top
        /\ scrollEvent' = IF top # domScrollTop THEN "layout" ELSE scrollEvent
  /\ unpinnedSinceAppend' = isUserScrolling
  /\ UNCHANGED <<height, heightCache, scrollTop, isUserScrolling,
                 userScrollTimeout, rafId, scrollFrames, lastSample>>
  /\ UNCHANGED otherVars

\* The selected conversation has no messages: ChatBubble returns null and the
\* list unmounts (its timer is cleared, its items disconnect their observers,
\* the frame callbacks it left find containerRef.current null or set the
\* state of an unmounted component). With the first message of the
\* conversation a new VirtualChatList mounts with m messages.
Remount(m) ==
  /\ messagesLength >= 1
  /\ messagesLength' = m
  /\ heightCache' = EmptyCache
  /\ scrollTop' = 0
  /\ isUserScrolling' = FALSE
  /\ userScrollTimeout' = FALSE
  /\ rafId' = FALSE
  /\ scrollFrames' = <<>>
  /\ autoScrollFrames' = AutoScrollEffect(0, m, FALSE)
  /\ totalHeight' = ComputeTotalHeight(EmptyCache, m)
  /\ startIndex' = getStartIndex(EmptyCache, m, 0)
  /\ endIndex' = getEndIndex(EmptyCache, m, 0, height)
  /\ offsetY' = getOffsetY(EmptyCache, startIndex')
  /\ onHeightChange' =
       MountedHandlers(MountedHandlers(onHeightChange, 0, -1, 0, FALSE, {}),
                       startIndex', endIndex', m, FALSE, {})
  /\ domScrollTop' = 0
  /\ scrollEvent' = "none"
  /\ lastSample' = 0
  /\ unpinnedSinceAppend' = FALSE
  /\ UNCHANGED height
  /\ UNCHANGED otherVars

SNext ==
  \/ Next
  \/ \E m \in 1..MaxMessages : SelectConversation(m)
  \/ \E m \in 1..MaxMessages : Remount(m)

SpecSwitch == Init /\ [][SNext]_vars

\* ------------------------------------------------------------------------
\* The list unmounts (ChatBubble returns null, or its parent goes away): the
\* cleanup effect clears the settle timer, every MessageItem disconnects its
\* observer, the refs to the elements become null. Nothing cancels the
\* frame callbacks requested before: they stay pending until the next frame.
Unmount ==
  /\ mounted
  /\ mounted' = FALSE
  /\ userScrollTimeout' = clearTimeout(userScrollTimeout)
  /\ onHeightChange' = MountedHandlers(onHeightChange, 0, -1, 0, FALSE, {})
  /\ UNCHANGED <<messagesLength, height, heightCache, scrollTop,
                 isUserScrolling, rafId, scrollFrames, autoScrollFrames,
                 totalHeight, startIndex, endIndex, offsetY, domScrollTop,
                 scrollEvent, lastSample, unpinnedSinceAppend>>
  /\ UNCHANGED <<utilVars, storeVars, settleVars>>

TNext ==
  \/ Next
  \/ Unmount

SpecTeardown == Init /\ [][TNext]_vars

\* ------------------------------------------------------------------------
\* handleScroll with the time of its settle timer: the timers setTimeout
\* holds are kept with their due times, a timer runs when the clock reaches
\* its due time, and the clock does not pass a timer that is due.
SettleDelay == 500        \* setTimeout(..., 500)
ClockStep == 250          \* the clock advances by ClockStep milliseconds

\* handleScroll without its clearTimeout
settleClearSkipped(timers, ref) == timers

\* if (userScrollTimeoutRef.current) clearTimeout(userScrollTimeoutRef.current)
settleClear(timers, ref) == timers \ {ref}

TimedHandleScroll(sample) ==
  /\ handleScrollState(sample)
  /\ settleTimers' = settleClear(settleTimers, settleRef)
                       \cup {[due |-> now + SettleDelay, args |-> "target"]}
  /\ settleRef' = [due |-> now + SettleDelay, args |-> "target"]
  /\ lastScrollTime' = now
  /\ UNCHANGED <<mounted, utilVars, storeVars>>

\* the user scrolls the container; its scroll event is handled
TimedUserScroll(o) ==
  /\ mounted
  /\ o # domScrollTop
  /\ domScrollTop' = o
  /\ scrollEvent' = "none"
  /\ TimedHandleScroll(o)

\* the scroll event of a scrollTop set by a script or by layout is handled
TimedDispatchScrollEvent ==
  /\ mounted
  /\ scrollEvent # "none"
  /\ scrollEvent' = "none"
  /\ UNCHANGED domScrollTop
  /\ TimedHandleScroll(domScrollTop)

\* the callback of the settle timer t; the ref keeps the id of the timer
TimedSettleTimeout(t) ==
  /\ t \in settleTimers
  /\ t.due = now
  /\ settleTimers' = settleTimers \ {t}
  /\ SettleTimeoutState
  /\ UNCHANGED <<settleRef, lastScrollTime>>
  /\ UNCHANGED <<mounted, utilVars, storeVars>>

\* ClockStep milliseconds pass; every timer that was due has run
SettleTick ==
  /\ now < StartTime + MaxTime * ClockStep
  /\ \A t \in settleTimers : t.due > now
  /\ now' = now + ClockStep
  /\ UNCHANGED <<wait, debTimers, debTimeout, debLastCall, debRuns,
                 thrTimers, thrTimeout, thrPrevious, thrLastRun, thrRuns,
                 thrWaiting>>
  /\ UNCHANGED <<mounted, listVars, storeVars, settleVars>>

\* the list mounted with MaxMessages messages, none measured
SettleSpecInit ==
  /\ messagesLength = MaxMessages
  /\ height \in ViewportHeights
  /\ heightCache = EmptyCache
  /\ scrollTop = 0
  /\ isUserScrolling = FALSE
  /\ userScrollTimeout = FALSE
  /\ rafId = FALSE
  /\ scrollFrames = <<>>
  /\ autoScrollFrames = AutoScrollEffect(0, messagesLength, FALSE)
  /\ totalHeight = ComputeTotalHeight(heightCache, messagesLength)
  /\ startIndex = getStartIndex(heightCache, messagesLength, 0)
  /\ endIndex = getEndIndex(heightCache, messagesLength, 0, height)
  /\ offsetY = getOffsetY(heightCache, startIndex)
  /\ onHeightChange =
       MountedHandlers(EmptyCache, startIndex, endIndex, messagesLength,
                       FALSE, {})
  /\ domScrollTop = 0
  /\ scrollEvent = "none"
  /\ lastSample = 0
  /\ unpinnedSinceAppend = FALSE
  /\ OtherInit

SettleNext ==
  \/ \E o \in UserOffsets(MaxScrollTop(totalHeight, height)) :
       TimedUserScroll(o)
  \/ TimedDispatchScrollEvent
  \/ \E t \in settleTimers : TimedSettleTimeout(t)
  \/ Frame
  \/ SettleTick

SpecSettle == SettleSpecInit /\ [][SettleNext]_vars

\* ------------------------------------------------------------------------
\* useChatStore and the selection of useConversationStore. Objects live in
\* heaps and are named by reference, so that a new object and a changed one
\* are different things.
MaxStoreCalls == 3        \* addMessage and addChunkMessage calls
Roles == {"user", "system"}
Chunks == {"x", "y"}
TextPart(text) == [type |-> "text", content |-> text]
ImagePart == [type |-> "image", content |-> <<"url">>]
Contents == {<<>>, <<TextPart(<<"t">>)>>, <<ImagePart>>,
             <<TextPart(<<"t">>), ImagePart>>}

\* state.messages.get(selectedId) || []
MessagesOf(arrays, maps, mapRef, id) ==
  IF maps[mapRef][id] = 0 THEN <<>> ELSE arrays[maps[mapRef][id]]

\* the last message of the array changed where it is: no new object
replaceLastInPlace(messages, ref, message) ==
  [heap |-> [messages EXCEPT ![ref] = message], ref |-> ref]

\* currentMessages[length - 1] = { ...lastMessage, content: lastContent }
replaceLast(messages, ref, message) ==
  [heap |-> Append(messages, message), ref |-> Len(messages) + 1]

\* a Map made with new Map() alone: the entries of state.messages are left
\* behind
MapWithOnly(old, id, ref) == [c \in Conversations |-> IF c = id THEN ref ELSE 0]

\* newMessages = new Map(state.messages); newMessages.set(id, ref)
MapWith(old, id, ref) == [old EXCEPT ![id] = ref]

\* the comparator of React.memo(MessageItem): TRUE skips the render
areEqual(prevMessage, nextMessage, prevIndex, nextIndex) ==
  prevMessage = nextMessage /\ prevIndex = nextIndex

\* setSelectedId(id)
SetSelectedId(id) ==
  /\ selectedId' = id
  /\ UNCHANGED <<msgHeap, arrHeap, mapHeap, storeMessages,
                 streamConversation>>
  /\ UNCHANGED <<mounted, listVars, utilVars, settleVars>>

\* addMessage({ content, role })
addMessage(content, role) ==
  /\ Len(mapHeap) <= MaxStoreCalls
  /\ LET currentMessages ==
           MessagesOf(arrHeap, mapHeap, storeMessages, selectedId)
     IN /\ msgHeap' = Append(msgHeap, [content |-> content, role |-> role])
        /\ arrHeap' = Append(arrHeap,
                             Append(currentMessages, Len(msgHeap) + 1))
        /\ mapHeap' = Append(mapHeap,
                             MapWith(mapHeap[storeMessages], selectedId,
                                     Len(arrHeap) + 1))
        /\ storeMessages' = Len(mapHeap) + 1
  /\ UNCHANGED <<selectedId, streamConversation>>
  /\ UNCHANGED <<mounted, listVars, utilVars, settleVars>>

\* addChunkMessage(chunk)
addChunkMessage(chunk) ==
  /\ Len(mapHeap) <= MaxStoreCalls
  /\ LET currentMessages ==
           MessagesOf(arrHeap, mapHeap, storeMessages, selectedId)
         n == Len(currentMessages)
     IN /\ IF n > 0 /\ msgHeap[currentMessages[n]].role = "system"
           THEN LET lastMessage == msgHeap[currentMessages[n]]
                    k == Len(lastMessage.content)
                    lastContent ==
                      IF k > 0 /\ lastMessage.content[k].type = "text"
                      THEN [lastMessage.content EXCEPT
                              ![k].content = @ \o <<chunk>>]
                      ELSE lastMessage.content
                    new == replaceLast(msgHeap, currentMessages[n],
                             [lastMessage EXCEPT !.content = lastContent])
                IN /\ msgHeap' = new.heap
                   /\ arrHeap' = Append(arrHeap,
                                   [currentMessages EXCEPT ![n] = new.ref])
           ELSE /\ msgHeap' = Append(msgHeap,
                                 [content |-> <<TextPart(<<chunk>>)>>,
                                  role |-> "system"])
                /\ arrHeap' = Append(arrHeap,
                                 Append(currentMessages, Len(msgHeap) + 1))
        /\ mapHeap' = Append(mapHeap,
                             MapWith(mapHeap[storeMessages], selectedId,
                                     Len(arrHeap) + 1))
        /\ storeMessages' = Len(mapHeap) + 1
  /\ streamConversation' = IF streamConversation = "none"
                           THEN selectedId ELSE streamConversation
  /\ UNCHANGED selectedId
  /\ UNCHANGED <<mounted, listVars, utilVars, settleVars>>

StNext ==
  \/ \E id \in Conversations : SetSelectedId(id)
  \/ \E content \in Contents, role \in Roles : addMessage(content, role)
  \/ \E chunk \in Chunks : addChunkMessage(chunk)

\* the stores created, a conversation selected, and no list mounted
StInit ==
  /\ messagesLength = 0
  /\ height = ReadmeHeight
  /\ heightCache = EmptyCache
  /\ scrollTop = 0
  /\ isUserScrolling = FALSE
  /\ userScrollTimeout = FALSE
  /\ rafId = FALSE
  /\ scrollFrames = <<>>
  /\ autoScrollFrames = 0
  /\ totalHeight = 0
  /\ startIndex = 0
  /\ endIndex = -1
  /\ offsetY = 0
  /\ onHeightChange = EmptyCache
  /\ domScrollTop = 0
  /\ scrollEvent = "none"
  /\ lastSample = 0
  /\ unpinnedSinceAppend = FALSE
  /\ mounted = FALSE
  /\ UtilInit({0})
  /\ StoreInit(Conversations)
  /\ SettleInit

SpecStore == StInit /\ [][StNext]_vars

\* ------------------------------------------------------------------------
\* debounce(func, wait) and throttle(func, wait), one instance of each, with
\* a clock. A timer runs when the clock reaches its due time, and the clock
\* does not pass a timer that is due.
UtilArgs == {"a", "b"}

\* debounce without its clearTimeout
debounceTimersKept(timers, timeout) == timers

\* if (timeout) clearTimeout(timeout)
debounceTimers(timers, timeout) == timers \ {timeout}

\* the function debounce returns, called with args
DebounceCall(args) ==
  LET t == [due |-> now + wait, args |-> args]
  IN /\ debTimers' = debounceTimers(debTimers, debTimeout) \cup {t}
     /\ debTimeout' = t
     /\ debLastCall' = [due |-> now, args |-> args]
     /\ debRuns' = 0
     /\ UNCHANGED <<now, wait, thrTimers, thrTimeout, thrPrevious,
                    thrLastRun, thrRuns, thrWaiting>>
     /\ UNCHANGED <<mounted, listVars, storeVars, settleVars>>

\* the callback of a timer of debounce: func.apply(context, args)
DebounceTimer(t) ==
  /\ t \in debTimers
  /\ t.due = now
  /\ debTimers' = debTimers \ {t}
  /\ debTimeout' = NoTimer
  /\ debRuns' = debRuns + 1
  /\ UNCHANGED <<now, wait, debLastCall, thrTimers, thrTimeout, thrPrevious,
                 thrLastRun, thrRuns, thrWaiting>>
  /\ UNCHANGED <<mounted, listVars, storeVars, settleVars>>

\* throttle's timer callback leaving previous as it was
throttlePreviousKept(old, time) == old

\* previous = Date.now() in the callback of the timer
throttlePrevious(old, time) == time

\* the function throttle returns, called with args
ThrottleCall(args) ==
  LET remaining == wait - (now - thrPrevious)
  IN /\ IF remaining <= 0 \/ remaining > wait
        THEN /\ thrTimers' = thrTimers \ {thrTimeout}
             /\ thrTimeout' = NoTimer
             /\ thrPrevious' = now
             /\ thrLastRun' = now
             /\ thrRuns' = thrRuns + 1
             /\ thrWaiting' = FALSE
        ELSE IF thrTimeout = NoTimer
        THEN /\ thrTimers' =
                  thrTimers \cup {[due |-> now + remaining, args |-> args]}
             /\ thrTimeout' = [due |-> now + remaining, args |-> args]
             /\ thrWaiting' = TRUE
             /\ UNCHANGED <<thrPrevious, thrLastRun, thrRuns>>
        ELSE /\ thrWaiting' = TRUE
             /\ UNCHANGED <<thrTimers, thrTimeout, thrPrevious, thrLastRun,
                            thrRuns>>
     /\ UNCHANGED <<now, wait, debTimers, debTimeout, debLastCall, debRuns>>
     /\ UNCHANGED <<mounted, listVars, storeVars, settleVars>>

\* the callback of the timer of throttle
ThrottleTimer(t) ==
  /\ t \in thrTimers
  /\ t.due = now
  /\ thrTimers' = thrTimers \ {t}
  /\ thrPrevious' = throttlePrevious(thrPrevious, now)
  /\ thrTimeout' = NoTimer
  /\ thrLastRun' = now
  /\ thrRuns' = thrRuns + 1
  /\ thrWaiting' = FALSE
  /\ UNCHANGED <<now, wait, debTimers, debTimeout, debLastCall, debRuns>>
  /\ UNCHANGED <<mounted, listVars, storeVars, settleVars>>

\* a millisecond passes; every timer that was due has run
Tick ==
  /\ now < StartTime + MaxTime
  /\ \A t \in debTimers \cup thrTimers \cup settleTimers : t.due > now
  /\ now' = now + 1
  /\ UNCHANGED <<wait, debTimers, debTimeout, debLastCall, debRuns,
                 thrTimers, thrTimeout, thrPrevious, thrLastRun, thrRuns,
                 thrWaiting>>
  /\ UNCHANGED <<mounted, listVars, storeVars, settleVars>>

UNext ==
  \/ \E args \in UtilArgs : DebounceCall(args)
  \/ \E t \in debTimers : DebounceTimer(t)
  \/ \E args \in UtilArgs : ThrottleCall(args)
  \/ \E t \in thrTimers : ThrottleTimer(t)
  \/ Tick

\* debounce(func, wait) and throttle(func, wait) have been called and no
\* list is mounted
UInit ==
  /\ messagesLength = 0
  /\ height = ReadmeHeight
  /\ heightCache = EmptyCache
  /\ scrollTop = 0
  /\ isUserScrolling = FALSE
  /\ userScrollTimeout = FALSE
  /\ rafId = FALSE
  /\ scrollFrames = <<>>
  /\ autoScrollFrames = 0
  /\ totalHeight = 0
  /\ startIndex = 0
  /\ endIndex = -1
  /\ offsetY = 0
  /\ onHeightChange = EmptyCache
  /\ domScrollTop = 0
  /\ scrollEvent = "none"
  /\ lastSample = 0
  /\ unpinnedSinceAppend = FALSE
  /\ mounted = FALSE
  /\ UtilInit(WaitTimes)
  /\ StoreInit({"c1"})
  /\ SettleInit

SpecUtil == UInit /\ [][UNext]_vars

\* ================================================================ claims
\* the bottom of the scroll range for the exposed totalHeight
Bottom == Max(0, totalHeight - height)

\* C1: the exposed totalHeight is the sum of getItemSize(i) over [0, n) for
\* the current cache.
C1_TotalHeightIsSumOfSizes ==
  totalHeight = ComputeTotalHeight(heightCache, messagesLength)

\* C2: once the newest item's height is reported, the auto-scroll a frame
\* applies targets max(0, total - viewport) for the total that counts the
\* reported height.
C2_AutoScrollTargetsNewTotal ==
  [][(/\ autoScrollFrames > 0
      /\ Frame
      /\ (messagesLength - 1) \in DOMAIN heightCache)
     => domScrollTop' =
          Max(0, ComputeTotalHeight(heightCache, messagesLength) - height)]_vars

C4_OwnScrollKeepsPinned ==
  [][(scrollEvent = "auto" /\ DispatchScrollEvent /\ ~isUserScrolling)
     => ~isUserScrolling']_vars

\* C5: isUserScrolling turns true only on a user's scroll sample that lies
\* more than epsilon above the bottom.
C5_UnpinOnlyByUserAwayFromBottom ==
  [][(~isUserScrolling /\ isUserScrolling')
     => /\ \E o \in UserOffsets(MaxScrollTop(totalHeight, height)) :
             UserScroll(o)
        /\ Bottom - domScrollTop' >= BottomEpsilon]_vars

DistanceToTotalMinusViewport ==
  IF domScrollTop >= totalHeight - height
  THEN domScrollTop - (totalHeight - height)
  ELSE (totalHeight - height) - domScrollTop

C7_NoDirectiveBeforeReport ==
  [][(~isUserScrolling /\ messagesLength' = messagesLength + 1)
     => autoScrollFrames' = autoScrollFrames]_vars

\* C8: at most one frame callback of the throttled scroll path is pending,
\* and rafId tells whether one is.
C8_AtMostOneScrollFrame ==
  /\ Len(scrollFrames) <= 1
  /\ rafId <=> scrollFrames # <<>>

\* a sample arrived while the callback of an earlier sample was pending
C8_Witness ==
  /\ scrollFrames # <<>>
  /\ lastSample # scrollFrames[1]

\* C9: once no scroll event and no throttled frame callback is pending, the
\* scrollTop state is the last sample received.
C9_LastSampleWins ==
  (scrollFrames = <<>> /\ scrollEvent = "none") => scrollTop = lastSample

\* the spec's concrete scenario: 10 unmeasured items, offset 0, viewport 600
ConcreteScenario ==
  /\ messagesLength = 10
  /\ heightCache = EmptyCache
  /\ scrollTop = 0
  /\ height = ReadmeHeight

\* C10 as amended: in the concrete scenario startIndex = 0, endIndex = 8 and
\* totalHeight = 1200.
C10_ScenarioWindow ==
  ConcreteScenario => (startIndex = 0 /\ endIndex = 8 /\ totalHeight = 1200)

C10_Witness == ConcreteScenario /\ endIndex = 8

\* C10 as stated: in the concrete scenario startIndex = 0, endIndex = 7 and
\* totalHeight = 1200.
C10_ScenarioWindowAsStated ==
  ConcreteScenario => (startIndex = 0 /\ endIndex = 7 /\ totalHeight = 1200)

\* the window a viewport of v can need when every item has the default
\* height: the items the viewport overlaps and the buffer on both sides
WindowBound(v) ==
  (v + DefaultHeight - 1) \div DefaultHeight + 2 * BUFFER_SIZE + 1

\* C11: with every item at the default height, the rendered window
\* endIndex - startIndex + 1 is at most a bound that depends on the viewport
\* and the buffer only, not on the number of items.
C11_WindowBounded ==
  heightCache = EmptyCache => endIndex - startIndex + 1 <= WindowBound(height)

\* the list is longer than the bound and the window is as large as the bound
C11_Witness ==
  /\ heightCache = EmptyCache
  /\ messagesLength > WindowBound(height)
  /\ endIndex - startIndex + 1 = WindowBound(height)

\* the offsets of [0, max] the containment is probed at
ProbeOffsets(max) == {10 * k : k \in 0..(max \div 10)} \cup {max}

\* the window computed for offset s of the current sizes contains s
ContainsOffset(s) ==
  /\ getOffsetY(heightCache, getStartIndex(heightCache, messagesLength, s)) <= s
  /\ s <= getOffsetY(heightCache, getStartIndex(heightCache, messagesLength, s))
          + SumSizes(heightCache,
                     getStartIndex(heightCache, messagesLength, s),
                     getEndIndex(heightCache, messagesLength, s, height) + 1)

\* C12: for every n >= 1 and every offset s in [0, totalHeight],
\* offsetY(startIndex) <= s <= offsetY(startIndex) + the sizes of the items
\* startIndex..endIndex.
C12_WindowContainsOffset ==
  messagesLength >= 1 =>
    \A s \in ProbeOffsets(ComputeTotalHeight(heightCache, messagesLength)) :
      ContainsOffset(s)

\* a measured item lies above the window, which starts above the offset
C12_Witness ==
  /\ 0 \in DOMAIN heightCache
  /\ startIndex > 0
  /\ offsetY < scrollTop
  /\ startIndex = getStartIndex(heightCache, messagesLength, scrollTop)
  /\ endIndex = getEndIndex(heightCache, messagesLength, scrollTop, height)
  /\ scrollTop <= ComputeTotalHeight(heightCache, messagesLength)

\* C13: the offsetY that positions the rendered items is the sum of
\* getItemSize(i) over [0, startIndex) for the current cache.
C13_OffsetYIsSumBelowStart ==
  offsetY = SumSizes(heightCache, 0, startIndex)

\* the window starts below a measured item
C13_Witness ==
  /\ startIndex >= 1
  /\ 0 \in DOMAIN heightCache
  /\ offsetY # startIndex * DefaultHeight

\* C14: for every n >= 1, every offset and viewport,
\* 0 <= startIndex <= endIndex <= n - 1.
C14_WindowWellFormed ==
  messagesLength >= 1 =>
    /\ 0 <= startIndex
    /\ startIndex <= endIndex
    /\ endIndex <= messagesLength - 1

\* the offset is the total height: no prefix exceeds it
C14_Witness ==
  /\ messagesLength > BUFFER_SIZE + 1
  /\ scrollTop = ComputeTotalHeight(heightCache, messagesLength)
  /\ startIndex = messagesLength - 1 - BUFFER_SIZE
  /\ endIndex = messagesLength - 1

\* C15: a set(index, height) with height <= 0 is rejected: afterwards get
\* returns for every index what it returned before the call.
C15_InvalidHeightRejected ==
  [][(\E i \in CacheIndexes, size \in CacheHeights :
        size <= 0 /\ CSetItemSize(i, size))
     => \A j \in CacheIndexes :
          getItemSize(heightCache', j) = getItemSize(heightCache, j)]_vars

\* C16: a set that changes the cache triggers a recompute of the exposed
\* totalHeight and window, and a set that repeats the stored height changes
\* neither the cache nor the exposed values: two equal calls, one recompute.
C16_EqualSetsRecomputeOnce ==
  [][(\E i \in 0..(MaxMessages - 1), size \in EntryHeights :
        ResizeObserverCallback(i, size))
     => IF heightCache' # heightCache
        THEN /\ totalHeight' =
                  ComputeTotalHeight(heightCache', messagesLength)
             /\ endIndex' =
                  getEndIndex(heightCache', messagesLength, scrollTop, height)
        ELSE UNCHANGED <<totalHeight, startIndex, endIndex, offsetY>>]_vars

\* C17: get returns the height most recently stored for the index and the
\* default when none is stored; a set on one index leaves get of every other
\* index as it was; after a clear every index returns the default. (Heights
\* are those the contract admits, height > 0.)
C17_GetReturnsLastStored ==
  [][/\ \A i \in CacheIndexes, size \in CacheHeights :
          (size > 0 /\ CSetItemSize(i, size))
            => /\ getItemSize(heightCache', i) = size
               /\ \A j \in CacheIndexes \ {i} :
                    getItemSize(heightCache', j) = getItemSize(heightCache, j)
     /\ CResetHeights
          => \A j \in CacheIndexes :
               getItemSize(heightCache', j) = DefaultHeight
     /\ \A j \in CacheIndexes \ DOMAIN heightCache' :
          getItemSize(heightCache', j) = DefaultHeight]_vars

\* one index holds a stored height, another holds one too, a third none
C17_Witness ==
  /\ 0 \in DOMAIN heightCache /\ getItemSize(heightCache, 0) = 50
  /\ 1 \in DOMAIN heightCache /\ getItemSize(heightCache, 1) = 40
  /\ 2 \notin DOMAIN heightCache /\ getItemSize(heightCache, 2) = DefaultHeight

\* C18: when another non-empty conversation is selected, the height cache is
\* emptied and the feed is Pinned again.
C18_SwitchResetsCacheAndPin ==
  [][(\E m \in 1..MaxMessages : SelectConversation(m))
     => (heightCache' = EmptyCache /\ ~isUserScrolling')]_vars

HeightReport ==
  \E i \in 0..(MaxMessages - 1), size \in EntryHeights :
    ResizeObserverCallback(i, size)

C21_UnmountCancelsSettleTimer ==
  [][~mounted'
       => /\ ~userScrollTimeout'
          /\ (~mounted => isUserScrolling' = isUserScrolling)]_vars

\* the list was unmounted while Unpinned by a scroll event whose coalesced
\* update is still pending
C21_Witness ==
  /\ ~mounted
  /\ isUserScrolling
  /\ scrollFrames # <<>>
  /\ ~userScrollTimeout

\* C22 as stated: when the list unmounts every pending frame callback is
\* cancelled: from the unmount on no frame callback is pending, and the
\* scrollTop state and the scroll position stay as they are.
C22_UnmountCancelsFrameCallbacks ==
  [][~mounted'
       => /\ scrollFrames' = <<>>
          /\ autoScrollFrames' = 0
          /\ (~mounted => (scrollTop' = scrollTop
                            /\ domScrollTop' = domScrollTop))]_vars

\* C22: the frame callbacks pending at the unmount are not cancelled, they
\* run in the next frame, and they change neither the scrollTop state nor
\* the scroll position nor the rendered window.
C22_FrameCallbacksInertAfterUnmount ==
  [][~mounted
       => /\ scrollTop' = scrollTop
          /\ domScrollTop' = domScrollTop
          /\ scrollEvent' = scrollEvent
          /\ UNCHANGED <<startIndex, endIndex, offsetY>>
          /\ (scrollFrames # <<>> \/ autoScrollFrames > 0 => Frame)]_vars

\* unmounted with a coalesced update and an auto-scroll pending that would
\* both change something
C22_Witness ==
  /\ ~mounted
  /\ scrollFrames # <<>>
  /\ scrollFrames[1] # scrollTop
  /\ autoScrollFrames > 0
  /\ domScrollTop # MaxScrollTop(totalHeight, height)

\* C23: a height report that changes a stored height triggers a recompute
\* committed as a whole: after it the exposed startIndex, endIndex, offsetY
\* and totalHeight are all the results for the current cache.
C23_ReportRecomputesWindow ==
  [][(HeightReport /\ heightCache' # heightCache)
     => /\ totalHeight' = ComputeTotalHeight(heightCache', messagesLength')
        /\ startIndex' = getStartIndex(heightCache', messagesLength', scrollTop')
        /\ endIndex' =
             getEndIndex(heightCache', messagesLength', scrollTop', height')
        /\ offsetY' = getOffsetY(heightCache', startIndex')]_vars

\* the indexes whose cumulative height h(0) + ... + h(i) exceeds limit
Exceeding(limit) ==
  {i \in 0..(messagesLength - 1) : SumSizes(heightCache, 0, i + 1) > limit}

\* the smallest of them
FirstExceeding(limit) ==
  CHOOSE i \in Exceeding(limit) : \A j \in Exceeding(limit) : i <= j

C29_EmptyWindowNotInverted ==
  (mounted /\ messagesLength = 0)
    => /\ DOMAIN onHeightChange = {}
       /\ ~(endIndex < startIndex)
       /\ totalHeight = 0
       /\ autoScrollFrames = 0

\* C29: for an empty sequence no item is rendered, the computed indexes are
\* startIndex = 0 and endIndex = -1, totalHeight is 0 and no auto-scroll is
\* requested.
C29_EmptySequence ==
  (mounted /\ messagesLength = 0)
    => /\ DOMAIN onHeightChange = {}
       /\ startIndex = 0
       /\ endIndex = -1
       /\ totalHeight = 0
       /\ autoScrollFrames = 0

\* the list is mounted with no message
C29_Witness ==
  /\ mounted
  /\ messagesLength = 0
  /\ scrollFrames = <<>>
  /\ ~isUserScrolling

\* C30: a height report processed while Unpinned changes only the cache
\* entry of the reported index: the scroll offset, isUserScrolling, the
\* settle timer, the pending auto-scrolls and the sizes of all other indexes
\* stay as they are.
C30_ReportWhileUnpinnedOnlyWritesCache ==
  [][\A i \in 0..(MaxMessages - 1), size \in EntryHeights :
       (isUserScrolling /\ ResizeObserverCallback(i, size))
         => /\ UNCHANGED <<scrollTop, domScrollTop, isUserScrolling,
                           userScrollTimeout, autoScrollFrames>>
            /\ \A j \in (0..(MaxMessages - 1)) \ {i} :
                 getItemSize(heightCache', j) = getItemSize(heightCache, j)]_vars

\* C24: func runs only once wait has elapsed since the most recent call of the
\* debounced function, with no call in between: every call made while a run is
\* pending cancels it and restarts the wait, and a burst of calls yields
\* exactly one run, with the arguments of the last call of the burst.
C24_DebounceRunsOnceAfterLastCall ==
  /\ [][\A t \in debTimers :
          DebounceTimer(t) =>
            /\ t.args = debLastCall.args
            /\ now = debLastCall.due + wait
            /\ debTimers' = {}]_vars
  /\ [][\A args \in UtilArgs :
          DebounceCall(args) =>
            debTimers' = {[due |-> now + wait, args |-> args]}]_vars
  /\ [](debRuns <= 1)

\* a burst of two calls with different arguments, a tick apart, has been run
C24_Witness ==
  /\ debRuns = 1
  /\ debLastCall.args = "b"
  /\ debLastCall.due > StartTime
  /\ now = debLastCall.due + wait

\* C25: func runs at most once within any window of length wait, two
\* consecutive runs being at least wait apart, and a call of the throttled
\* function made during the window is not lost: a timer that runs func is
\* pending and due at the end of the window, wait after the last run.
C25_ThrottleOncePerWindow ==
  /\ [][thrRuns' # thrRuns =>
          thrLastRun = -1 \/ now - thrLastRun >= wait]_vars
  /\ [](thrWaiting =>
          /\ thrTimeout \in thrTimers
          /\ thrTimeout.due = thrLastRun + wait
          /\ now <= thrTimeout.due)

\* a call made during the window of a first run is pending at the end of the
\* window
C25_Witness ==
  /\ thrWaiting
  /\ thrRuns = 1
  /\ thrTimeout.due = now
  /\ now = thrLastRun + wait

\* C26: every addChunkMessage that finds a system message last in the selected
\* conversation yields a new message object in its place, in a new array and
\* a new Map, all distinct from every earlier object, so the comparator of
\* the item reports a change and the item renders again.
C26_ChunkYieldsNewReferences ==
  [][\A chunk \in Chunks :
       LET old == MessagesOf(arrHeap, mapHeap, storeMessages, selectedId)
           new == MessagesOf(arrHeap', mapHeap', storeMessages', selectedId)
       IN (/\ addChunkMessage(chunk)
           /\ old # <<>>
           /\ msgHeap[old[Len(old)]].role = "system")
          => /\ Len(new) = Len(old)
             /\ new[Len(new)] \notin DOMAIN msgHeap
             /\ mapHeap'[storeMessages'][selectedId] \notin DOMAIN arrHeap
             /\ storeMessages' \notin DOMAIN mapHeap
             /\ ~areEqual(old[Len(old)], new[Len(new)],
                          Len(old) - 1, Len(new) - 1)]_vars

\* a chunk has been added to a system message that ended in text
C26_Witness ==
  LET cur == MessagesOf(arrHeap, mapHeap, storeMessages, selectedId)
  IN /\ Len(cur) = 1
     /\ msgHeap[cur[1]].role = "system"
     /\ msgHeap[cur[1]].content = <<TextPart(<<"t", "x">>)>>
     /\ Len(msgHeap) = 2

\* C31: the settle timer is a debounce: every scroll sample cancels the
\* pending settle timer and schedules a new one, so at most one settle timer
\* is pending at any time, and the settle evaluation runs only after a full
\* settle delay with no scroll sample.
C31_SettleTimerIsDebounce ==
  /\ [](Cardinality(settleTimers) <= 1)
  /\ [](userScrollTimeout <=> settleTimers # {})
  /\ [][lastScrollTime' # lastScrollTime \/ settleRef' # settleRef =>
          settleTimers' = {[due |-> now + SettleDelay, args |-> "target"]}]_vars
  /\ [][\A t \in settleTimers :
          TimedSettleTimeout(t) => now - lastScrollTime >= SettleDelay]_vars

\* a second scroll sample arrived while the timer of the first was pending,
\* and the settle evaluation has run a full delay after the second
C31_Witness ==
  /\ settleTimers = {}
  /\ lastScrollTime = StartTime + ClockStep
  /\ settleRef.due = lastScrollTime + SettleDelay
  /\ now = settleRef.due
  /\ ~userScrollTimeout

\* C32: a height report that repeats the height already stored for its index
\* issues no scroll directive: no auto-scroll frame callback is requested by
\* it.
C32_UnchangedReportIssuesNoDirective ==
  [][\A i \in 0..(MaxMessages - 1), size \in EntryHeights :
       (/\ ResizeObserverCallback(i, size)
        /\ i \in DOMAIN heightCache
        /\ heightCache[i] = size)
         => autoScrollFrames' = autoScrollFrames]_vars

\* C33: the height report of an item mounted earlier is judged by the current
\* PinState and the current item count: it requests an auto-scroll only if
\* the item is the last one now and the feed is Pinned now, so after the user
\* has unpinned the feed no report triggers a scroll to the bottom.
C33_ReportJudgedByCurrentState ==
  [][\A i \in 0..(MaxMessages - 1), size \in EntryHeights :
       (ResizeObserverCallback(i, size)
          /\ autoScrollFrames' > autoScrollFrames)
         => i = messagesLength - 1 /\ ~isUserScrolling]_vars

\* no settle timer, no frame callback and no scroll event is pending
Quiet ==
  /\ ~userScrollTimeout
  /\ scrollFrames = <<>>
  /\ autoScrollFrames = 0
  /\ scrollEvent = "none"

\* C34: if the user never scrolls the feed keeps following: once nothing is
\* pending any more, the state is Pinned and the offset is at the bottom of
\* the container.
C34_FollowsWithoutUserScroll ==
  (Quiet /\ messagesLength > 0)
    => /\ ~isUserScrolling
       /\ domScrollTop = MaxScrollTop(totalHeight, height)

\* a step of the feedback loop: a scroll event, the settle timer or a frame
LoopStep == DispatchScrollEvent \/ SettleTimeout \/ Frame

\* C35: when from some point on there is no user scroll, no append and no
\* height report, the loop of auto-scroll, scroll event, settle timer and
\* auto-scroll effect comes to an end: eventually no timer, frame callback or
\* scroll event is pending, and so no further scroll is issued.
C35_FeedbackLoopTerminates == <>[][LoopStep]_vars => <>[]Quiet

\* the loop has run to its end: the scroll event of the engine's own scroll
\* was handled, the settle timer pinned the feed again, and the auto-scroll
\* that followed left the offset where it was
C35_Witness ==
  /\ Quiet
  /\ ~isUserScrolling
  /\ rafId = FALSE
  /\ lastSample = domScrollTop
  /\ domScrollTop = MaxScrollTop(totalHeight, height)
  /\ domScrollTop > 0

\* the text of a content: its text parts, one after the other
RECURSIVE TextOfParts(_)
TextOfParts(content) ==
  IF content = <<>> THEN <<>>
  ELSE (IF Head(content).type = "text" THEN Head(content).content ELSE <<>>)
       \o TextOfParts(Tail(content))

\* the text of the messages whose references are in refs
RECURSIVE TextOfMessages(_, _)
TextOfMessages(messages, refs) ==
  IF refs = <<>> THEN <<>>
  ELSE TextOfParts(messages[Head(refs)].content)
       \o TextOfMessages(messages, Tail(refs))

\* C36: addChunkMessage never loses a chunk: after every call the text of the
\* selected conversation is its text before the call followed by the chunk.
C36_ChunkNeverLost ==
  [][\A chunk \in Chunks :
       addChunkMessage(chunk) =>
         TextOfMessages(msgHeap',
             MessagesOf(arrHeap', mapHeap', storeMessages', selectedId))
           = TextOfMessages(msgHeap,
               MessagesOf(arrHeap, mapHeap, storeMessages, selectedId))
             \o <<chunk>>]_vars

\* C37: the chunks of one streamed reply all go to the conversation in which
\* the reply began: a chunk of the reply changes the message list of no other
\* conversation, whatever was selected or added between two chunks.
C37_ChunksStayInTheirConversation ==
  [][\A chunk \in Chunks :
       (addChunkMessage(chunk) /\ streamConversation # "none")
         => \A c \in Conversations \ {streamConversation} :
              MessagesOf(arrHeap', mapHeap', storeMessages', c)
                = MessagesOf(arrHeap, mapHeap, storeMessages, c)]_vars

\* the step is a call of addMessage or of addChunkMessage
StoreCall ==
  \/ \E content \in Contents, role \in Roles : addMessage(content, role)
  \/ \E chunk \in Chunks : addChunkMessage(chunk)

\* C38: addMessage and addChunkMessage are append-only and leave the rest
\* alone: every other conversation keeps its array, the selected one keeps
\* its messages in their order, the last one possibly replaced by a copy of
\* the same role and the same number of parts, its length grows by at most 1,
\* and no Map, array or message object of the previous state is changed.
C38_AppendOnlyAndImmutable ==
  [][StoreCall =>
       LET old == MessagesOf(arrHeap, mapHeap, storeMessages, selectedId)
           new == MessagesOf(arrHeap', mapHeap', storeMessages', selectedId)
       IN /\ \A c \in Conversations \ {selectedId} :
               mapHeap'[storeMessages'][c] = mapHeap[storeMessages][c]
          /\ Len(new) \in {Len(old), Len(old) + 1}
          /\ \A k \in 1..(Len(old) - 1) : new[k] = old[k]
          /\ old # <<>> =>
               /\ msgHeap'[new[Len(old)]].role = msgHeap[old[Len(old)]].role
               /\ Len(msgHeap'[new[Len(old)]].content)
                    = Len(msgHeap[old[Len(old)]].content)
          /\ \A r \in DOMAIN msgHeap : msgHeap'[r] = msgHeap[r]
          /\ \A r \in DOMAIN arrHeap : arrHeap'[r] = arrHeap[r]
          /\ \A r \in DOMAIN mapHeap : mapHeap'[r] = mapHeap[r]]_vars

\* both conversations hold messages, and a chunk was added to the system
\* message of the selected one after the other conversation was written
C38_Witness ==
  LET cur == MessagesOf(arrHeap, mapHeap, storeMessages, selectedId)
  IN /\ \A c \in Conversations : mapHeap[storeMessages][c] # 0
     /\ Len(cur) = 1
     /\ Len(msgHeap) = 3
     /\ msgHeap[cur[1]].content = <<TextPart(<<"x", "y">>)>>

====
